---------------------------- MODULE Spec2Model ----------------------------
(***************************************************************************)
(* Model of the language arbitration of the translator bot:                *)
(* TranslationService.detect_language and the helpers it calls             *)
(* (src/src/services/translation.py), with Config.SUPPORTED_LANGUAGES      *)
(* (src/src/config.py).                                                    *)
(*                                                                         *)
(* A text is a sequence of Unicode code points (integers), so that the     *)
(* regular expressions of the code are range tests on code points.  The    *)
(* two detection libraries are outside the repository: what detect() and   *)
(* langid.classify() answer is an input, drawn from small sets.            *)
(***************************************************************************)
EXTENDS Integers, Sequences, FiniteSets, TLC

VARIABLES
    pc,                 \* position of the detect_language call
    text,               \* argument text
    hint_language,      \* argument hint_language (None when not passed)
    cleaned_text,       \* local cleaned_text
    detect_outcome,     \* what langdetect.detect() did in this call
    classify_outcome,   \* what langid.classify() did in this call
    langdetect_result,  \* local langdetect_result
    langid_result,      \* local langid_result
    final_lang,         \* local final_lang
    result,             \* the value detect_language returned
    calls,              \* the helpers invoked so far, in order
    previous,           \* outcomes and result of the call made before
    supported_languages,    \* Config.SUPPORTED_LANGUAGES (its keys) now
    USER_LANGUAGE_PREFS,    \* Config.USER_LANGUAGE_PREFS
    pending_translations,   \* BotHandlers.pending_translations
    api_key,            \* MistralAssistantService.api_key
    keyboards,          \* the translation keyboards each user has on screen
    last,               \* the handler or method that ran last, and what it did
    files               \* the audio files on disk: path -> content

vars == <<pc, text, hint_language, cleaned_text, detect_outcome,
          classify_outcome, langdetect_result, langid_result, final_lang,
          result, calls, previous, supported_languages, USER_LANGUAGE_PREFS,
          pending_translations, api_key, keyboards, last, files>>

\* the program state outside the call of detect_language
outside ==
    <<supported_languages, USER_LANGUAGE_PREFS, pending_translations,
      api_key, keyboards, last, files>>

---------------------------------------------------------------------------
(* Bounds of the model *)

\* generated texts have at most this many code points
MaxTextLen == 3

---------------------------------------------------------------------------
(* Values *)

\* Python's None
None == "<None>"

\* marks a local that has not been assigned yet
Unset == "<unset>"

\* an exception leaving a function
Raised == "<raised>"

\* Python truthiness of an Optional[str]
Truthy(x) == x # None /\ x # ""

\* no handler has run yet
NoRun ==
    [handler |-> "none", user |-> 0, data |-> None, calls |-> <<>>,
     returned |-> Unset, created |-> {}, unlinked |-> {}]

\* Config.SUPPORTED_LANGUAGES (its keys) as config.py writes it
SUPPORTED_LANGUAGES ==
    {"ar", "bg", "cs", "da", "de", "el", "en", "es", "et", "fa", "fi", "fr",
     "he", "hi", "hr", "hu", "id", "it", "ja", "ko", "lt", "lv", "ms", "nl",
     "no", "pl", "pt", "ro", "ru", "sk", "sl", "sq", "sv", "th", "tr", "uk",
     "vi", "zh"}

\* Config.is_language_supported
is_language_supported(lang_code) == lang_code \in supported_languages

---------------------------------------------------------------------------
(* Character classes of the regular expressions *)

\* \s of the re module on str, and what str.strip() removes
IsSpace(c) ==
    \/ c \in 9..13
    \/ c \in 28..32
    \/ c \in {133, 160, 5760, 8232, 8233, 8239, 8287, 12288}
    \/ c \in 8192..8202

\* the character class of emoji_pattern
IsEmoji(c) ==
    \/ c \in 128512..128591     \* 1F600-1F64F
    \/ c \in 127744..128511     \* 1F300-1F5FF
    \/ c \in 128640..128767     \* 1F680-1F6FF
    \/ c \in 128768..128895     \* 1F700-1F77F
    \/ c \in 128896..129023     \* 1F780-1F7FF
    \/ c \in 129024..129279     \* 1F800-1F8FF
    \/ c \in 129280..129535     \* 1F900-1F9FF
    \/ c \in 129536..129647     \* 1FA00-1FA6F
    \/ c \in 129648..129791     \* 1FA70-1FAFF
    \/ c \in 9986..10160        \* 2702-27B0
    \/ c \in 9410..127569       \* 24C2-1F251

\* [\u4e00-\u9fff]
IsCJK(c) == c \in 19968..40959

\* [\u3040-\u309f\u30a0-\u30ff]
IsKana(c) == c \in 12352..12447 \/ c \in 12448..12543

\* [\uac00-\ud7af\u1100-\u11ff]
IsHangul(c) == c \in 44032..55215 \/ c \in 4352..4607

\* [\u0600-\u06ff]
IsArabic(c) == c \in 1536..1791

\* [\u0430-\u044f\u0410-\u042f], written with the letters themselves
IsCyrillic(c) == c \in 1072..1103 \/ c \in 1040..1071

\* [\u0370-\u03ff]
IsGreek(c) == c \in 880..1023

\* re.search of each one-character class
HasCJK(s) == \E i \in 1..Len(s) : IsCJK(s[i])
HasKana(s) == \E i \in 1..Len(s) : IsKana(s[i])
HasHangul(s) == \E i \in 1..Len(s) : IsHangul(s[i])
HasArabic(s) == \E i \in 1..Len(s) : IsArabic(s[i])
HasCyrillic(s) == \E i \in 1..Len(s) : IsCyrillic(s[i])
HasGreek(s) == \E i \in 1..Len(s) : IsGreek(s[i])

---------------------------------------------------------------------------
(* String helpers *)

RECURSIVE LStrip(_)
LStrip(s) ==
    IF s = <<>> THEN s
    ELSE IF IsSpace(Head(s)) THEN LStrip(Tail(s)) ELSE s

RECURSIVE RStrip(_)
RStrip(s) ==
    IF s = <<>> THEN s
    ELSE IF IsSpace(s[Len(s)]) THEN RStrip(SubSeq(s, 1, Len(s) - 1)) ELSE s

\* str.strip()
Strip(s) == LStrip(RStrip(s))

\* s has the literal lit at index i
HasAt(s, i, lit) ==
    /\ i + Len(lit) - 1 <= Len(s)
    /\ \A k \in 1..Len(lit) : s[i + k - 1] = lit[k]

\* \S+ from index j: the index after the run of non-space characters that
\* starts at j, or 0 when there is no non-space character at j
RECURSIVE NonSpaceRun(_, _)
NonSpaceRun(s, j) ==
    IF j > Len(s) \/ IsSpace(s[j]) THEN 0
    ELSE LET e == NonSpaceRun(s, j + 1) IN IF e = 0 THEN j + 1 ELSE e

\* slip: the pattern has no alternative for www.
UrlMatchEnd_NoWww(s, i) ==
    LET http == <<104, 116, 116, 112>>
        sep  == <<58, 47, 47>>
        withS == IF HasAt(s, i, http) /\ HasAt(s, i + 4, <<115>>)
                      /\ HasAt(s, i + 5, sep)
                 THEN NonSpaceRun(s, i + 8) ELSE 0
        noS   == IF HasAt(s, i, http) /\ HasAt(s, i + 4, sep)
                 THEN NonSpaceRun(s, i + 7) ELSE 0
    IN  IF withS > 0 THEN withS ELSE noS

\* a match of https?://\S+|www\.\S+ that starts at index i: the index after
\* the match, or 0 when the pattern does not match at i
UrlMatchEnd(s, i) ==
    LET http == <<104, 116, 116, 112>>
        sep  == <<58, 47, 47>>
        www  == <<119, 119, 119, 46>>
        withS == IF HasAt(s, i, http) /\ HasAt(s, i + 4, <<115>>)
                      /\ HasAt(s, i + 5, sep)
                 THEN NonSpaceRun(s, i + 8) ELSE 0
        noS   == IF HasAt(s, i, http) /\ HasAt(s, i + 4, sep)
                 THEN NonSpaceRun(s, i + 7) ELSE 0
        alt2  == IF HasAt(s, i, www) THEN NonSpaceRun(s, i + 4) ELSE 0
    IN  IF withS > 0 THEN withS
        ELSE IF noS > 0 THEN noS
        ELSE alt2

\* re.sub(r'https?://\S+|www\.\S+', '', text)
RECURSIVE RemoveUrlsFrom(_, _)
RemoveUrlsFrom(s, i) ==
    IF i > Len(s) THEN <<>>
    ELSE LET e == UrlMatchEnd(s, i)
         IN  IF e > 0 THEN RemoveUrlsFrom(s, e)
             ELSE <<s[i]>> \o RemoveUrlsFrom(s, i + 1)

RemoveUrls(s) == RemoveUrlsFrom(s, 1)

\* emoji_pattern.sub(r'', text)
RemoveEmoji(s) == SelectSeq(s, LAMBDA c : ~IsEmoji(c))

\* re.sub(r'\s+', ' ', text)
RECURSIVE CollapseSpaces(_)
CollapseSpaces(s) ==
    IF s = <<>> THEN s
    ELSE IF IsSpace(Head(s))
         THEN <<32>> \o CollapseSpaces(LStrip(s))
         ELSE <<Head(s)>> \o CollapseSpaces(Tail(s))

\* TranslationService._clean_text_for_detection
_clean_text_for_detection(t) ==
    Strip(CollapseSpaces(RemoveEmoji(RemoveUrls(t))))


---------------------------------------------------------------------------
(* The two detectors *)

\* the number of characters below which a text is too short to detect
MinTextLen == 3

\* the confidence threshold of langid, in tenths
ConfidenceThreshold == 5

\* what langdetect.detect(text) did: returned a code or raised
NoOutcome == [kind |-> "not called", lang |-> None, conf |-> 0]

\* no call of detect_language was made before this one
NoPrevious ==
    [detect_outcome |-> NoOutcome, classify_outcome |-> NoOutcome,
     result |-> Unset]

\* the libraries answer a repeated call as they answered the first: the
\* outcome a detector may give now, given what it gave in the call before
SameAsBefore(outcome, before) == previous = NoPrevious \/ outcome = before

\* slip: only LangDetectException is caught, another exception leaves
_detect_with_langdetect_Propagates(outcome) ==
    IF outcome.kind = "return" THEN outcome.lang
    ELSE IF outcome.kind = "LangDetectException" THEN None
    ELSE Raised

\* TranslationService._detect_with_langdetect, given what detect() did
_detect_with_langdetect(outcome) ==
    IF outcome.kind = "return" THEN outcome.lang
    ELSE None     \* except LangDetectException / except Exception

\* slip: the threshold test is >= instead of >
_detect_with_langid_AtLeast(outcome) ==
    IF outcome.kind = "return"
    THEN IF outcome.conf >= ConfidenceThreshold THEN outcome.lang ELSE None
    ELSE None

\* TranslationService._detect_with_langid, given what classify() did
_detect_with_langid(outcome) ==
    IF outcome.kind = "return"
    THEN IF outcome.conf > ConfidenceThreshold THEN outcome.lang ELSE None
    ELSE None     \* except Exception

---------------------------------------------------------------------------
(* TranslationService._combine_detection_results *)

\* slip: the hint is compared with the result of langdetect only
HintConfirmed_LangdetectOnly(langdetect, langid, hint) ==
    Truthy(hint) /\ hint = langdetect

\* the hint is confirmed by one of the detectors
HintConfirmed(langdetect, langid, hint) ==
    Truthy(hint) /\ (hint = langdetect \/ hint = langid)

\* slip: the loop over uk, bg, sr runs before the test for ru
CyrillicTieBreak_LoopFirst(langdetect, langid) ==
    IF langdetect = "uk" \/ langid = "uk" THEN "uk"
    ELSE IF langdetect = "bg" \/ langid = "bg" THEN "bg"
    ELSE IF langdetect = "sr" \/ langid = "sr" THEN "sr"
    ELSE "ru"

\* slip: among the Cyrillic languages the result of langdetect is taken first
CyrillicTieBreak_LangdetectFirst(langdetect, langid) ==
    IF langdetect \in {"ru", "uk", "bg", "sr"} THEN langdetect
    ELSE IF langid \in {"ru", "uk", "bg", "sr"} THEN langid
    ELSE "ru"

\* the branch taken for a text with Cyrillic letters
CyrillicTieBreak(langdetect, langid) ==
    IF langdetect = "ru" \/ langid = "ru" THEN "ru"
    ELSE IF langdetect = "uk" \/ langid = "uk" THEN "uk"
    ELSE IF langdetect = "bg" \/ langid = "bg" THEN "bg"
    ELSE IF langdetect = "sr" \/ langid = "sr" THEN "sr"
    ELSE "ru"

\* slip: the Greek test stands before the Cyrillic test
ScriptDecision_GreekFirst(t, langdetect, langid, hint) ==
    IF HasCJK(t) THEN "zh"
    ELSE IF HasKana(t) THEN "ja"
    ELSE IF HasHangul(t) THEN "ko"
    ELSE IF HasArabic(t) THEN "ar"
    ELSE IF HasGreek(t) THEN "el"
    ELSE IF HasCyrillic(t) THEN CyrillicTieBreak(langdetect, langid)
    ELSE IF Truthy(hint) THEN hint
    ELSE langdetect

\* slip: the default of a conflict is the result of langid
ScriptDecision_PreferLangid(t, langdetect, langid, hint) ==
    IF HasCJK(t) THEN "zh"
    ELSE IF HasKana(t) THEN "ja"
    ELSE IF HasHangul(t) THEN "ko"
    ELSE IF HasArabic(t) THEN "ar"
    ELSE IF HasCyrillic(t) THEN CyrillicTieBreak(langdetect, langid)
    ELSE IF HasGreek(t) THEN "el"
    ELSE IF Truthy(hint) THEN hint
    ELSE langid

\* the branch taken when both detectors gave a result and they differ
ScriptDecision(t, langdetect, langid, hint) ==
    IF HasCJK(t) THEN "zh"
    ELSE IF HasKana(t) THEN "ja"
    ELSE IF HasHangul(t) THEN "ko"
    ELSE IF HasArabic(t) THEN "ar"
    ELSE IF HasCyrillic(t) THEN CyrillicTieBreak(langdetect, langid)
    ELSE IF HasGreek(t) THEN "el"
    ELSE IF Truthy(hint) THEN hint
    ELSE langdetect

\* slip: with nothing detected the default target language is returned
_combine_DefaultsToTarget(t, langdetect, langid, hint) ==
    IF HintConfirmed(langdetect, langid, hint) THEN hint
    ELSE IF Truthy(langdetect) /\ Truthy(langid) /\ langdetect = langid
         THEN langdetect
    ELSE IF Truthy(langdetect) /\ ~Truthy(langid) THEN langdetect
    ELSE IF ~Truthy(langdetect) /\ Truthy(langid) THEN langid
    ELSE IF Truthy(langdetect) /\ Truthy(langid)
         THEN ScriptDecision(t, langdetect, langid, hint)
    ELSE IF Truthy(hint) THEN hint
    ELSE "en"

\* slip: the branch for two agreeing detectors is missing
_combine_NoAgreementBranch(t, langdetect, langid, hint) ==
    IF HintConfirmed(langdetect, langid, hint) THEN hint
    ELSE IF Truthy(langdetect) /\ ~Truthy(langid) THEN langdetect
    ELSE IF ~Truthy(langdetect) /\ Truthy(langid) THEN langid
    ELSE IF Truthy(langdetect) /\ Truthy(langid)
         THEN ScriptDecision(t, langdetect, langid, hint)
    ELSE IF Truthy(hint) THEN hint
    ELSE None

\* slip: the script tests run as soon as one detector gave a result
_combine_ScriptsBeforeSingle(t, langdetect, langid, hint) ==
    IF HintConfirmed(langdetect, langid, hint) THEN hint
    ELSE IF Truthy(langdetect) /\ Truthy(langid) /\ langdetect = langid
         THEN langdetect
    ELSE IF Truthy(langdetect) \/ Truthy(langid)
         THEN ScriptDecision(t, IF Truthy(langdetect) THEN langdetect
                                ELSE langid,
                             langid, hint)
    ELSE IF Truthy(hint) THEN hint
    ELSE None

\* the whole of _combine_detection_results
_combine_detection_results(t, langdetect, langid, hint) ==
    IF HintConfirmed(langdetect, langid, hint) THEN hint
    ELSE IF Truthy(langdetect) /\ Truthy(langid) /\ langdetect = langid
         THEN langdetect
    ELSE IF Truthy(langdetect) /\ ~Truthy(langid) THEN langdetect
    ELSE IF ~Truthy(langdetect) /\ Truthy(langid) THEN langid
    ELSE IF Truthy(langdetect) /\ Truthy(langid)
         THEN ScriptDecision(t, langdetect, langid, hint)
    ELSE IF Truthy(hint) THEN hint
    ELSE None

---------------------------------------------------------------------------
(* TranslationService.detect_language *)

\* slip: the membership test is negated
HintShortCircuit_Negated(hint) == Truthy(hint) /\ ~is_language_supported(hint)

\* the first test: a supported hint is returned at once
HintShortCircuit(hint) == Truthy(hint) /\ is_language_supported(hint)

\* slip: the floor is one character lower
TooShort_OffByOne(t) == t = <<>> \/ Len(Strip(t)) < MinTextLen - 1

\* not text or len(text.strip()) < 3
TooShort(t) == t = <<>> \/ Len(Strip(t)) < MinTextLen

\* slip: no fallback to the hint
Validate_NoFallback(final, hint) ==
    IF Truthy(final) /\ is_language_supported(final) THEN final
    ELSE None

\* the validation of final_lang and the fallback to the hint
Validate(final, hint) ==
    IF Truthy(final) /\ is_language_supported(final) THEN final
    ELSE IF Truthy(hint) THEN hint
    ELSE None

\* the handler of the outer try
ExceptHandler(hint) == IF Truthy(hint) THEN hint ELSE None

\* the whole of detect_language as a function of its arguments and of what
\* detect() and classify() do when they are reached
detect_language(t, hint, detect, classify) ==
    IF HintShortCircuit(hint) THEN hint
    ELSE IF TooShort(t) THEN None
    ELSE LET cleaned == _clean_text_for_detection(t)
             langdetect == _detect_with_langdetect(detect)
             langid == _detect_with_langid(classify)
         IN  IF TooShort(cleaned) THEN None
             ELSE IF langdetect = Raised \/ langid = Raised
                  THEN ExceptHandler(hint)
             ELSE Validate(
                      _combine_detection_results(cleaned, langdetect, langid,
                                                 hint),
                      hint)

---------------------------------------------------------------------------
(* Config: the language preferences of the users *)

\* Config.TARGET_LANGUAGE
TARGET_LANGUAGE == "en"

\* slip: the code is stored without the test of is_language_supported
set_user_language_Unchecked(prefs, user_id, language_code) ==
    (user_id :> language_code) @@ prefs

\* Config.set_user_language: USER_LANGUAGE_PREFS after the call
set_user_language(prefs, user_id, language_code) ==
    IF is_language_supported(language_code)
    THEN (user_id :> language_code) @@ prefs
    ELSE prefs

\* Config.get_user_language
get_user_language(prefs, user_id) ==
    IF user_id \in DOMAIN prefs THEN prefs[user_id] ELSE TARGET_LANGUAGE

---------------------------------------------------------------------------
(* Texts that a service returns *)

\* a service returned the text t
TextResult(t) == [kind |-> "text", text |-> t]

\* a service returned None
NoText == [kind |-> "none", text |-> <<>>]

\* a service raised
RaisedText == [kind |-> "raise", text |-> <<>>]

\* "not x" of an Optional[str] that a service returned
Falsy(x) == x.kind # "text" \/ x.text = <<>>

\* TranslationService.translate should reach GoogleTranslator for these
\* arguments
ReachesTranslator(source_lang, target_lang) ==
    LET target == IF Truthy(target_lang) /\ is_language_supported(target_lang)
                  THEN target_lang ELSE TARGET_LANGUAGE
    IN  ~(Truthy(source_lang) /\ source_lang = target)

\* TranslationService.translate, google being what GoogleTranslator does
\* when it is reached
translate(t, source_lang, target_lang, google) ==
    IF ~ReachesTranslator(source_lang, target_lang) THEN TextResult(t)
    ELSE IF google.kind = "raise" THEN NoText
    ELSE google

---------------------------------------------------------------------------
(* Inputs *)

\* space, a, Cyrillic pe, Greek alpha, Arabic alef, the ideograph zhong
Alphabet == {32, 97, 1087, 945, 1575, 20013}

\* texts with URLs, emoji, ideographs, kana, Hangul and runs of spaces
SampleTexts ==
    { <<119, 119, 119, 46, 97>>,                        \* www.a
      <<104, 116, 116, 112, 58, 47, 47, 97>>,           \* http://a
      <<104, 116, 116, 112, 115, 58, 47, 47, 97>>,      \* https://a
      <<97, 97, 97, 32, 119, 119, 119, 46, 97>>,        \* aaa www.a
      <<1087, 1087, 32, 128512, 32, 1087>>,             \* two pe, emoji, pe
      <<20013, 20013, 20013>>,                          \* three ideographs
      <<97, 97, 20013, 97>>,                            \* ideograph in Latin
      <<12354, 12356, 12358>>,                          \* three hiragana
      <<44032, 44033, 44034>>,                          \* three Hangul syllables
      <<4352, 4353, 4354>>,                             \* three Hangul jamo
      <<4352, 1087, 945, 97>>,                          \* jamo, pe, alpha, a
      <<97, 32, 32, 32, 98>>,                           \* a, three spaces, b
      <<97, 10, 98, 9>>,                                \* a, newline, b, tab
      <<104, 116, 128512, 116, 112, 58, 47, 47, 97>>,   \* ht, emoji, tp://a
      <<128512, 128512, 128512, 128512>>,               \* four emoji
      <<128512, 32, 119, 119, 119, 46, 97>>,            \* emoji, www.a
      <<119, 119, 119, 46, 97, 10, 104, 116, 116, 112, 58, 47, 47, 97>>,
                                                        \* www.a, http://a
      <<119, 119, 119, 46>>,                            \* www.
      <<945, 945, 32, 119, 119, 119, 46, 1087>>,        \* two alpha, www.pe
      <<12354, 20013, 44032, 1575>>,    \* hiragana, ideograph, Hangul, alef
      <<12450, 44032, 1575, 1087>>,     \* katakana, Hangul, alef, pe
      <<4352, 1575, 945, 1087>> }       \* jamo, alef, alpha, pe

Texts ==
    UNION {[1..n -> Alphabet] : n \in 0..MaxTextLen} \cup SampleTexts

\* no hint, an empty hint, a supported hint, an unsupported hint
Hints == {None, "", "ru", "sr"}

\* the codes detect() answers in the model; sr and mk are not supported
LangdetectCodes == {"en", "ru", "uk", "bg", "ja", "sr", "mk"}

\* langid is restricted to the supported languages by set_languages
LangidCodes == {"en", "ru", "uk", "bg"}

\* confidences of classify(), in tenths
Confidences == {4, 5, 6}

DetectOutcomes ==
    {[kind |-> "return", lang |-> c, conf |-> 0] : c \in LangdetectCodes}
    \cup {[kind |-> k, lang |-> None, conf |-> 0] :
            k \in {"LangDetectException", "Exception"}}

ClassifyOutcomes ==
    {[kind |-> "return", lang |-> c, conf |-> p] :
        c \in LangidCodes, p \in Confidences}
    \cup {[kind |-> "Exception", lang |-> None, conf |-> 0]}

---------------------------------------------------------------------------
(* The call detect_language(text, hint_language) *)

\* the arguments of the call and its locals before it starts
InitCall ==
    /\ pc = "start"
    /\ text \in Texts
    /\ hint_language \in Hints
    /\ cleaned_text = <<>>
    /\ detect_outcome = NoOutcome
    /\ classify_outcome = NoOutcome
    /\ langdetect_result = Unset
    /\ langid_result = Unset
    /\ final_lang = Unset
    /\ result = Unset
    /\ calls = <<>>
    /\ previous = NoPrevious

\* a call made right after the construction of the services
Init ==
    /\ InitCall
    /\ supported_languages = SUPPORTED_LANGUAGES
    /\ USER_LANGUAGE_PREFS = <<>>
    /\ pending_translations = <<>>
    /\ api_key = None
    /\ keyboards = <<>>
    /\ last = NoRun
    /\ files = <<>>

\* slip: a text that is too short falls back to the hint, as the handler of
\* the try does
Enter_ShortFallsBackToHint ==
    /\ pc = "start"
    /\ IF HintShortCircuit(hint_language)
       THEN /\ result' = hint_language
            /\ pc' = "done"
            /\ UNCHANGED <<cleaned_text, calls>>
       ELSE IF TooShort(text)
       THEN /\ result' = ExceptHandler(hint_language)
            /\ pc' = "done"
            /\ UNCHANGED <<cleaned_text, calls>>
       ELSE LET cleaned == _clean_text_for_detection(text)
            IN  /\ cleaned_text' = cleaned
                /\ calls' = Append(calls, "_clean_text_for_detection")
                /\ IF TooShort(cleaned)
                   THEN result' = ExceptHandler(hint_language) /\ pc' = "done"
                   ELSE pc' = "langdetect" /\ UNCHANGED result
    /\ UNCHANGED <<text, hint_language, detect_outcome, classify_outcome,
                   langdetect_result, langid_result, final_lang>>
    /\ UNCHANGED <<previous, outside>>

\* lines 28-42: the hint test, the length test, the cleaning
Enter ==
    /\ pc = "start"
    /\ IF HintShortCircuit(hint_language)
       THEN /\ result' = hint_language
            /\ pc' = "done"
            /\ UNCHANGED <<cleaned_text, calls>>
       ELSE IF TooShort(text)
       THEN /\ result' = None
            /\ pc' = "done"
            /\ UNCHANGED <<cleaned_text, calls>>
       ELSE LET cleaned == _clean_text_for_detection(text)
            IN  /\ cleaned_text' = cleaned
                /\ calls' = Append(calls, "_clean_text_for_detection")
                /\ IF TooShort(cleaned)
                   THEN result' = None /\ pc' = "done"
                   ELSE pc' = "langdetect" /\ UNCHANGED result
    /\ UNCHANGED <<text, hint_language, detect_outcome, classify_outcome,
                   langdetect_result, langid_result, final_lang>>
    /\ UNCHANGED <<previous, outside>>

\* line 45
DetectWithLangdetect ==
    /\ pc = "langdetect"
    /\ \E outcome \in DetectOutcomes :
        LET r == _detect_with_langdetect(outcome)
        IN  /\ SameAsBefore(outcome, previous.detect_outcome)
            /\ detect_outcome' = outcome
            /\ calls' = Append(calls, "_detect_with_langdetect")
            /\ IF r = Raised
               THEN /\ result' = ExceptHandler(hint_language)
                    /\ pc' = "done"
                    /\ UNCHANGED langdetect_result
               ELSE /\ langdetect_result' = r
                    /\ pc' = "langid"
                    /\ UNCHANGED result
    /\ UNCHANGED <<text, hint_language, cleaned_text, classify_outcome,
                   langid_result, final_lang>>
    /\ UNCHANGED <<previous, outside>>

\* line 46
DetectWithLangid ==
    /\ pc = "langid"
    /\ \E outcome \in ClassifyOutcomes :
        LET r == _detect_with_langid(outcome)
        IN  /\ SameAsBefore(outcome, previous.classify_outcome)
            /\ classify_outcome' = outcome
            /\ calls' = Append(calls, "_detect_with_langid")
            /\ IF r = Raised
               THEN /\ result' = ExceptHandler(hint_language)
                    /\ pc' = "done"
                    /\ UNCHANGED langid_result
               ELSE /\ langid_result' = r
                    /\ pc' = "combine"
                    /\ UNCHANGED result
    /\ UNCHANGED <<text, hint_language, cleaned_text, detect_outcome,
                   langdetect_result, final_lang>>
    /\ UNCHANGED <<previous, outside>>

\* slip: a code that is not supported is added to the supported languages
Combine_RegistersLanguage ==
    /\ pc = "combine"
    /\ LET final == _combine_detection_results(
                        cleaned_text, langdetect_result, langid_result,
                        hint_language)
       IN  /\ final_lang' = final
           /\ calls' = Append(calls, "_combine_detection_results")
           /\ result' = Validate(final, hint_language)
           /\ supported_languages' =
                 IF Truthy(final) THEN supported_languages \cup {final}
                 ELSE supported_languages
           /\ pc' = "done"
    /\ UNCHANGED <<text, hint_language, cleaned_text, detect_outcome,
                   classify_outcome, langdetect_result, langid_result>>
    /\ UNCHANGED <<previous, USER_LANGUAGE_PREFS, pending_translations,
                   api_key, keyboards, last, files>>

\* slip: the results are passed in the order in which the calls were made
Combine_ByCompletionOrder ==
    /\ pc = "combine"
    /\ LET langidFirst == calls[2] = "_detect_with_langid"
           final == _combine_detection_results(
                        cleaned_text,
                        IF langidFirst THEN langid_result
                        ELSE langdetect_result,
                        IF langidFirst THEN langdetect_result
                        ELSE langid_result,
                        hint_language)
       IN  /\ final_lang' = final
           /\ calls' = Append(calls, "_combine_detection_results")
           /\ result' = Validate(final, hint_language)
           /\ pc' = "done"
    /\ UNCHANGED <<text, hint_language, cleaned_text, detect_outcome,
                   classify_outcome, langdetect_result, langid_result>>
    /\ UNCHANGED <<previous, outside>>

\* lines 49-67
Combine ==
    /\ pc = "combine"
    /\ LET final == _combine_detection_results(
                        cleaned_text, langdetect_result, langid_result,
                        hint_language)
       IN  /\ final_lang' = final
           /\ calls' = Append(calls, "_combine_detection_results")
           /\ result' = Validate(final, hint_language)
           /\ pc' = "done"
    /\ UNCHANGED <<text, hint_language, cleaned_text, detect_outcome,
                   classify_outcome, langdetect_result, langid_result>>
    /\ UNCHANGED <<previous, outside>>

Next == Enter \/ DetectWithLangdetect \/ DetectWithLangid \/ Combine

Spec == Init /\ [][Next]_vars

---------------------------------------------------------------------------
(* The two detector calls in the other order.  The code makes the call of   *)
(* line 45 before the call of line 46; each call reads cleaned_text only     *)
(* and assigns its own local.  These actions are the same two statements     *)
(* with the call of line 46 made first.                                      *)

\* line 46, made before line 45
DetectWithLangidFirst ==
    /\ pc = "langdetect"
    /\ \E outcome \in ClassifyOutcomes :
        LET r == _detect_with_langid(outcome)
        IN  /\ SameAsBefore(outcome, previous.classify_outcome)
            /\ classify_outcome' = outcome
            /\ calls' = Append(calls, "_detect_with_langid")
            /\ IF r = Raised
               THEN /\ result' = ExceptHandler(hint_language)
                    /\ pc' = "done"
                    /\ UNCHANGED langid_result
               ELSE /\ langid_result' = r
                    /\ pc' = "langdetect_last"
                    /\ UNCHANGED result
    /\ UNCHANGED <<text, hint_language, cleaned_text, detect_outcome,
                   langdetect_result, final_lang>>
    /\ UNCHANGED <<previous, outside>>

\* line 45, made after line 46
DetectWithLangdetectLast ==
    /\ pc = "langdetect_last"
    /\ \E outcome \in DetectOutcomes :
        LET r == _detect_with_langdetect(outcome)
        IN  /\ SameAsBefore(outcome, previous.detect_outcome)
            /\ detect_outcome' = outcome
            /\ calls' = Append(calls, "_detect_with_langdetect")
            /\ IF r = Raised
               THEN /\ result' = ExceptHandler(hint_language)
                    /\ pc' = "done"
                    /\ UNCHANGED langdetect_result
               ELSE /\ langdetect_result' = r
                    /\ pc' = "combine"
                    /\ UNCHANGED result
    /\ UNCHANGED <<text, hint_language, cleaned_text, classify_outcome,
                   langid_result, final_lang>>
    /\ UNCHANGED <<previous, outside>>

NextAnyOrder == Next \/ DetectWithLangidFirst \/ DetectWithLangdetectLast

SpecAnyOrder == Init /\ [][NextAnyOrder]_vars

---------------------------------------------------------------------------
(* The call _combine_detection_results(text, langdetect_result,            *)
(* langid_result, hint_language) on its own, for every text and every      *)
(* pair of results.  cleaned_text holds the argument text.                 *)

\* the values of the two result arguments
CombineArgs == {None} \cup LangdetectCodes

InitCombine ==
    /\ pc = "call_combine"
    /\ text = <<>>
    /\ cleaned_text \in Texts
    /\ langdetect_result \in CombineArgs
    /\ langid_result \in CombineArgs
    /\ hint_language \in Hints
    /\ detect_outcome = NoOutcome
    /\ classify_outcome = NoOutcome
    /\ final_lang = Unset
    /\ result = Unset
    /\ calls = <<>>
    /\ previous = NoPrevious
    /\ supported_languages = SUPPORTED_LANGUAGES
    /\ USER_LANGUAGE_PREFS = <<>>
    /\ pending_translations = <<>>
    /\ api_key = None
    /\ keyboards = <<>>
    /\ last = NoRun
    /\ files = <<>>

\* lines 147-223
CallCombine ==
    /\ pc = "call_combine"
    /\ final_lang' = _combine_detection_results(
                         cleaned_text, langdetect_result, langid_result,
                         hint_language)
    /\ calls' = Append(calls, "_combine_detection_results")
    /\ pc' = "combined"
    /\ UNCHANGED <<text, hint_language, cleaned_text, detect_outcome,
                   classify_outcome, langdetect_result, langid_result,
                   result, previous, outside>>

NextCombine == CallCombine

SpecCombine == InitCombine /\ [][NextCombine]_vars

---------------------------------------------------------------------------
(* The same call made twice, while a user has a language preference and a  *)
(* pending translation.                                                    *)

\* a call made when user 1 has chosen ru and has an English text pending
InitTwice ==
    /\ InitCall
    /\ supported_languages = SUPPORTED_LANGUAGES
    /\ USER_LANGUAGE_PREFS = (1 :> "ru")
    /\ pending_translations =
          (1 :> [text |-> <<97, 97, 97>>, source_lang |-> "en"])
    /\ api_key = None
    /\ keyboards = (1 :> {"en"})
    /\ last = NoRun
    /\ files = <<>>

\* detect_language is called again with the same text and hint
CallAgain ==
    /\ pc = "done"
    /\ previous = NoPrevious
    /\ previous' = [detect_outcome |-> detect_outcome,
                    classify_outcome |-> classify_outcome,
                    result |-> result]
    /\ pc' = "start"
    /\ cleaned_text' = <<>>
    /\ detect_outcome' = NoOutcome
    /\ classify_outcome' = NoOutcome
    /\ langdetect_result' = Unset
    /\ langid_result' = Unset
    /\ final_lang' = Unset
    /\ result' = Unset
    /\ calls' = <<>>
    /\ UNCHANGED <<text, hint_language, outside>>

NextTwice == Next \/ CallAgain

SpecTwice == InitTwice /\ [][NextTwice]_vars

---------------------------------------------------------------------------
(* The handlers of the bot.  One action is one run of a handler: updates  *)
(* are dispatched one at a time.                                           *)

\* the variables of a call of detect_language
call ==
    <<pc, text, hint_language, cleaned_text, detect_outcome,
      classify_outcome, langdetect_result, langid_result, final_lang,
      result, calls, previous>>

\* no call of detect_language is being followed step by step
IdleCall ==
    /\ pc = "idle"
    /\ text = <<>>
    /\ hint_language = None
    /\ cleaned_text = <<>>
    /\ detect_outcome = NoOutcome
    /\ classify_outcome = NoOutcome
    /\ langdetect_result = Unset
    /\ langid_result = Unset
    /\ final_lang = Unset
    /\ result = Unset
    /\ calls = <<>>
    /\ previous = NoPrevious

\* the Telegram users of the model
Users == {1, 2}

\* the user who writes to the bot in the translation conversation
Writers == {1}

\* user.language_code when Telegram sends none
NoLanguageCode == [primary |-> "", region |-> ""]

\* user.language_code as Telegram sends it: the first two letters and the
\* rest ("" for a two-letter code, as in "de"; "-US" as in "en-US")
TelegramCodes ==
    {NoLanguageCode} \cup {[primary |-> l, region |-> r] :
                              l \in {"en", "de", "sr"}, r \in {"", "-US"}}

\* the callback data after the prefix lang_: buttons of the language
\* keyboards, and a code that is not supported
LanguageCallbackData == {"en", "ru", "es", "more", "back", "sr"}

\* lines 192-202 of start: the language taken from user.language_code
StartLanguage(language_code) ==
    IF language_code = NoLanguageCode THEN "ru"
    ELSE IF language_code.region = ""
            /\ is_language_supported(language_code.primary)
         THEN language_code.primary
    ELSE IF language_code.region # ""
            /\ is_language_supported(language_code.primary)
         THEN language_code.primary
    ELSE "ru"

\* the bot right after construction, Mistral key unset
InitPrefs ==
    /\ IdleCall
    /\ supported_languages = SUPPORTED_LANGUAGES
    /\ USER_LANGUAGE_PREFS = <<>>
    /\ pending_translations = <<>>
    /\ api_key = None
    /\ keyboards = <<>>
    /\ last = NoRun
    /\ files = <<>>

\* BotHandlers.start
Start ==
    \E user_id \in Users, language_code \in TelegramCodes :
        LET user_language == StartLanguage(language_code)
        IN  /\ USER_LANGUAGE_PREFS' =
                  set_user_language(USER_LANGUAGE_PREFS, user_id,
                                    user_language)
            /\ last' = [NoRun EXCEPT !.handler = "start",
                                     !.user = user_id,
                                     !.data = user_language,
                                     !.calls = <<"set_user_language">>,
                                     !.returned = None]
            /\ UNCHANGED <<call, supported_languages, pending_translations,
                           api_key, keyboards, files>>

\* BotHandlers.language_callback
LanguageCallback ==
    \E user_id \in Users, lang_code \in LanguageCallbackData :
        /\ IF lang_code \in {"more", "back"}
           THEN /\ UNCHANGED USER_LANGUAGE_PREFS
                /\ last' = [NoRun EXCEPT !.handler = "language_callback",
                                         !.user = user_id,
                                         !.data = lang_code,
                                         !.returned = None]
           ELSE /\ USER_LANGUAGE_PREFS' =
                      set_user_language(USER_LANGUAGE_PREFS, user_id,
                                        lang_code)
                /\ last' = [NoRun EXCEPT !.handler = "language_callback",
                                         !.user = user_id,
                                         !.data = lang_code,
                                         !.calls = <<"set_user_language">>,
                                         !.returned = None]
        /\ UNCHANGED <<call, supported_languages, pending_translations,
                       api_key, keyboards, files>>

NextPrefs == Start \/ LanguageCallback

SpecPrefs == InitPrefs /\ [][NextPrefs]_vars

---------------------------------------------------------------------------
(* The translation conversation: process_text, process_voice,              *)
(* translation_language_callback and assistant_callback.  What a service   *)
(* or Telegram does when a handler reaches it is drawn where the handler   *)
(* reaches it.                                                             *)

\* ConversationHandler.END and the state the handlers return
END == "END"
AWAITING_TRANSLATION_LANGUAGE == "AWAITING_TRANSLATION_LANGUAGE"

\* the texts users send: aaa and three Cyrillic pe
BotTexts == {<<97, 97, 97>>, <<1087, 1087, 1087>>}

\* what detect() and classify() do in the runs of the handlers: both say
\* en, both say ru, or detect() raises and classify() is not confident
BotDetections ==
    {[detect |-> [kind |-> "return", lang |-> c, conf |-> 0],
      classify |-> [kind |-> "return", lang |-> c, conf |-> 6]] :
        c \in {"en", "ru"}}
    \cup {[detect |-> [kind |-> "LangDetectException", lang |-> None,
                       conf |-> 0],
           classify |-> [kind |-> "return", lang |-> "en", conf |-> 4]]}

\* what GoogleTranslator does: a text (bbb), an empty text, an exception
GoogleOutcomes == {TextResult(<<98, 98, 98>>), TextResult(<<>>), RaisedText}

\* what the Mistral service returns: a text (ccc) or None
AssistantOutcomes == {TextResult(<<99, 99, 99>>), NoText}

\* MistralAssistantService.is_available
is_available == api_key # None /\ api_key # ""

\* the run of a handler that starts
Run(handler, user_id, data) ==
    [NoRun EXCEPT !.handler = handler, !.user = user_id, !.data = data]

\* the run after one more call of a service or of Telegram
Log(run, what) == [run EXCEPT !.calls = Append(@, what)]

\* the run when the handler returns value, or an exception leaves it
Return(run, value) == [run EXCEPT !.returned = value]

\* the handler is over: what it leaves behind
Done(run, pending, keys) ==
    /\ last' = run
    /\ pending_translations' = pending
    /\ keyboards' = keys
    /\ UNCHANGED <<call, supported_languages, USER_LANGUAGE_PREFS, api_key,
                   files>>

\* the keyboards user_id has on screen
KeyboardsOf(keys, user_id) ==
    IF user_id \in DOMAIN keys THEN keys[user_id] ELSE {}

\* the languages of the buttons of _get_translation_language_keyboard
KeyboardLanguages(exclude_lang) ==
    {lang \in supported_languages : lang # exclude_lang}

\* a message with the keyboard for exclude_lang reached user_id
ShowKeyboard(keys, user_id, exclude_lang) ==
    (user_id :> (KeyboardsOf(keys, user_id) \cup {exclude_lang})) @@ keys

\* edit_message_text replaced the message that carried the keyboard
RemoveKeyboard(keys, user_id, exclude_lang) ==
    (user_id :> (KeyboardsOf(keys, user_id) \ {exclude_lang})) @@ keys

\* self.pending_translations[user_id] = entry
Store(pending, user_id, entry) == (user_id :> entry) @@ pending

\* del self.pending_translations[user_id]
Delete(pending, user_id) ==
    [u \in DOMAIN pending \ {user_id} |-> pending[u]]

\* the entry of a message that is English already (lines 479-482)
EnglishEntry(t, source_lang) == [text |-> t, source_lang |-> source_lang]

\* slip: the entry of a translated message keeps the detected language
TranslatedEntry_KeepsSource(english_translation, t, source_lang) ==
    [text |-> english_translation, source_lang |-> source_lang,
     original_text |-> t, original_lang |-> source_lang]

\* the entry of a message translated to English (lines 498-503)
TranslatedEntry(english_translation, t, source_lang) ==
    [text |-> english_translation, source_lang |-> "en",
     original_text |-> t, original_lang |-> source_lang]

\* what a run of process_text or process_voice worked on: the text, the
\* language detected for it, what translate returned for it
MessageData(t, source_lang) ==
    [text |-> t, source_lang |-> source_lang, english |-> NoText]

\* a reply is sent and the handler returns END; Telegram may fail to
\* deliver it, and the exception leaves the handler
ReplyAndEnd(run, reply, pending, keys) ==
    \E delivered \in BOOLEAN :
        IF delivered
        THEN Done(Return(Log(run, reply), END), pending, keys)
        ELSE Done(Return(run, Raised), pending, keys)

\* lines 505-531: the message with the keyboard of the target languages
AskTargetLanguage(run, pending, user_id, source_lang) ==
    \E delivered \in BOOLEAN :
        IF delivered
        THEN Done(Return(Log(run, "send_keyboard"),
                         AWAITING_TRANSLATION_LANGUAGE),
                  pending, ShowKeyboard(keyboards, user_id, source_lang))
        ELSE Done(Return(run, Raised), pending, keyboards)

\* BotHandlers.process_text
ProcessText ==
    \E user_id \in Writers, t \in BotTexts, typing \in BOOLEAN :
        IF ~typing
        THEN Done(Return(Run("process_text", user_id, MessageData(t, None)),
                         Raised),
                  pending_translations, keyboards)
        ELSE \E detection \in BotDetections :
            LET source_lang == detect_language(t, None, detection.detect,
                                               detection.classify)
                run == Log(Run("process_text", user_id,
                               MessageData(t, source_lang)),
                           "detect_language")
            IN  IF ~Truthy(source_lang)
                THEN ReplyAndEnd(run, "reply_not_detected",
                                 pending_translations, keyboards)
                ELSE IF ~is_language_supported(source_lang)
                THEN ReplyAndEnd(run, "reply_not_supported",
                                 pending_translations, keyboards)
                ELSE IF source_lang = "en"
                THEN AskTargetLanguage(
                         run,
                         Store(pending_translations, user_id,
                               EnglishEntry(t, source_lang)),
                         user_id, source_lang)
                ELSE \E google \in GoogleOutcomes :
                    LET english_translation ==
                            translate(t, source_lang, "en", google)
                        translated ==
                            Log([run EXCEPT !.data.english =
                                               english_translation],
                                "translate")
                        stored ==
                            Store(pending_translations, user_id,
                                  TranslatedEntry(english_translation.text,
                                                  t, source_lang))
                    IN  IF Falsy(english_translation)
                        THEN ReplyAndEnd(translated,
                                         "reply_translation_failed",
                                         pending_translations, keyboards)
                        ELSE \E delivered \in BOOLEAN :
                            IF delivered
                            THEN AskTargetLanguage(
                                     Log(translated, "reply_english"),
                                     stored, user_id, source_lang)
                            ELSE Done(Return(translated, Raised), stored,
                                      keyboards)

\* the buttons the users of the model press
PressedLanguages == {"en", "ru", "fr"}

\* a service the run did not call
NotCalled == [kind |-> "not called", text |-> <<>>]

\* what a run of translation_language_callback worked on: the language of
\* the button, the keyboard it is on, whether an entry was pending, and
\* what the two translators returned
CallbackData(target_lang, exclude_lang, found) ==
    [target |-> target_lang, keyboard |-> exclude_lang, found |-> found,
     generic |-> NotCalled, assistant |-> NotCalled]

\* the temporary file of a handler
TempFile == "NamedTemporaryFile"

\* slip: the file is unlinked only when the handler returns normally
Finally_OnlyOnReturn(run, value, pending, keys) ==
    Done(Return([run EXCEPT !.unlinked = IF value = Raised THEN {}
                                         ELSE run.created],
                value),
         pending, keys)

\* the finally block of a handler: os.unlink is attempted on the file the
\* handler created (a failure of unlink is logged and goes no further);
\* then the handler returns value or the exception leaves it
Finally(run, value, pending, keys) ==
    Done(Return([run EXCEPT !.unlinked = run.created], value), pending, keys)

\* the except block of a handler: an error message, then finally
Except(run, pending, keys) ==
    \E delivered \in BOOLEAN :
        IF delivered
        THEN Finally(Log(run, "reply_error"), END, pending, keys)
        ELSE Finally(run, Raised, pending, keys)

\* lines 620-683 of translation_language_callback: the audio of the
\* translation
SendAudio(run, pending, keys) ==
    \E made \in BOOLEAN :
        IF ~made
        THEN Except(run, pending, keys)
        ELSE LET created == [run EXCEPT !.created = {TempFile}]
             IN  \E success \in BOOLEAN, delivered \in BOOLEAN :
                    LET synthesized == Log(created, "synthesize")
                    IN  IF ~delivered
                        THEN Except(synthesized, pending, keys)
                        ELSE IF success
                        THEN Finally(Log(synthesized, "send_audio"), END,
                                     pending, keys)
                        ELSE Finally(Log(synthesized, "reply_no_audio"),
                                     END, pending, keys)

\* lines 599-619: the entry is deleted, the translation or the failure is
\* reported
ReportTranslation(run, user_id, translated_text, keys) ==
    LET pending == Delete(pending_translations, user_id)
    IN  IF Falsy(translated_text)
        THEN ReplyAndEnd(run, "reply_translation_failed", pending, keys)
        ELSE \E delivered \in BOOLEAN, uploading \in BOOLEAN :
                IF delivered /\ uploading
                THEN SendAudio(Log(run, "reply_translation"), pending, keys)
                ELSE IF delivered
                THEN Done(Return(Log(run, "reply_translation"), Raised),
                          pending, keys)
                ELSE Done(Return(run, Raised), pending, keys)

\* slip: the order the design notes give: Mistral first, translate as the
\* fallback
TranslatePending_AssistantFirst(run, user_id, t, target_lang, keys) ==
    \E mistral \in AssistantOutcomes, google \in GoogleOutcomes :
        LET first == IF is_available THEN mistral ELSE NoText
            asked == Log([run EXCEPT !.data.assistant = first],
                         "translate_with_context")
            second == translate(t, "en", target_lang, google)
        IN  IF Falsy(first)
            THEN ReportTranslation(
                     Log([asked EXCEPT !.data.generic = second],
                         "translate"),
                     user_id, second, keys)
            ELSE ReportTranslation(asked, user_id, first, keys)

\* lines 591-597: translate, then the Mistral service when translate gave
\* nothing and the service is available
TranslatePending(run, user_id, t, target_lang, keys) ==
    \E google \in GoogleOutcomes :
        LET first == translate(t, "en", target_lang, google)
            translated == Log([run EXCEPT !.data.generic = first],
                              "translate")
        IN  IF Falsy(first) /\ is_available
            THEN \E mistral \in AssistantOutcomes :
                    ReportTranslation(
                        Log([translated EXCEPT !.data.assistant = mistral],
                            "translate_with_context"),
                        user_id, mistral, keys)
            ELSE ReportTranslation(translated, user_id, first, keys)

\* query.edit_message_text(reply) and return END: the edited message loses
\* its keyboard
EditAndEnd(run, reply, user_id, exclude_lang) ==
    \E delivered \in BOOLEAN :
        IF delivered
        THEN Done(Return(Log(run, reply), END), pending_translations,
                  RemoveKeyboard(keyboards, user_id, exclude_lang))
        ELSE Done(Return(run, Raised), pending_translations, keyboards)

\* BotHandlers.translation_language_callback, for a button of a keyboard
\* that user_id has on screen
TranslationLanguageCallback ==
    \E user_id \in Writers :
    \E exclude_lang \in KeyboardsOf(keyboards, user_id) :
    \E target_lang \in KeyboardLanguages(exclude_lang) \cap PressedLanguages,
       answered \in BOOLEAN :
        LET found == user_id \in DOMAIN pending_translations
            run == Run("translation_language_callback", user_id,
                       CallbackData(target_lang, exclude_lang, found))
            removed == RemoveKeyboard(keyboards, user_id, exclude_lang)
        IN  IF ~answered
            THEN Done(Return(run, Raised), pending_translations, keyboards)
            ELSE IF ~found
            THEN EditAndEnd(run, "reply_expired", user_id, exclude_lang)
            ELSE IF target_lang = pending_translations[user_id].source_lang
            THEN EditAndEnd(run, "reply_same_language", user_id,
                            exclude_lang)
            ELSE \E edited \in BOOLEAN, typing \in BOOLEAN :
                IF ~edited
                THEN Done(Return(run, Raised), pending_translations,
                          keyboards)
                ELSE IF ~typing
                THEN Done(Return(Log(run, "reply_translating"), Raised),
                          pending_translations, removed)
                ELSE TranslatePending(
                         Log(run, "reply_translating"), user_id,
                         pending_translations[user_id].text, target_lang,
                         removed)

\* BotHandlers.assistant_callback, for the assistant button of a keyboard
\* that user_id has on screen
AssistantCallback ==
    /\ is_available
    /\ \E user_id \in Writers :
       \E exclude_lang \in KeyboardsOf(keyboards, user_id) :
       \E answered \in BOOLEAN :
        LET found == user_id \in DOMAIN pending_translations
            run == Run("assistant_callback", user_id,
                       CallbackData("en", exclude_lang, found))
            removed == RemoveKeyboard(keyboards, user_id, exclude_lang)
        IN  IF ~answered
            THEN Done(Return(run, Raised), pending_translations, keyboards)
            ELSE IF ~found
            THEN EditAndEnd(run, "reply_expired", user_id, exclude_lang)
            ELSE \E edited \in BOOLEAN, typing \in BOOLEAN :
                IF ~edited
                THEN Done(Return(run, Raised), pending_translations,
                          keyboards)
                ELSE IF ~typing
                THEN Done(Return(Log(run, "reply_processing"), Raised),
                          pending_translations, removed)
                ELSE \E response \in AssistantOutcomes :
                    LET asked ==
                            Log([Log(run, "reply_processing")
                                    EXCEPT !.data.assistant = response],
                                "generate_creative_response")
                        pending == Delete(pending_translations, user_id)
                    IN  IF Falsy(response)
                        THEN ReplyAndEnd(asked, "reply_no_response",
                                         pending, removed)
                        ELSE ReplyAndEnd(asked, "reply_response", pending,
                                         removed)

\* what transcribe returns: None, or the text and the language Whisper
\* detected (which may be None or a language that is not supported)
TranscribeOutcomes ==
    {[kind |-> "none", text |-> <<>>, language |-> None]}
    \cup {[kind |-> "tuple", text |-> t, language |-> l] :
            t \in {<<97, 97, 97>>, <<1087, 1087, 1087>>, <<>>},
            l \in {None, "ru"}}

\* the entries process_voice stores: as process_text, with the user_id
VoiceEnglishEntry(t, source_lang, user_id) ==
    [text |-> t, source_lang |-> source_lang, user_id |-> user_id]

VoiceTranslatedEntry(english_translation, t, source_lang, user_id) ==
    [text |-> english_translation, source_lang |-> "en",
     original_text |-> t, original_lang |-> source_lang,
     user_id |-> user_id]

\* a message sent inside the try of process_voice: when it is delivered the
\* handler goes to finally and returns value, otherwise to except
ReplyInTry(run, reply, value, pending, keys) ==
    \E delivered \in BOOLEAN :
        IF delivered THEN Finally(Log(run, reply), value, pending, keys)
        ELSE Except(run, pending, keys)

\* lines 797-823 of process_voice: the message with the keyboard, inside
\* the try
AskTargetLanguageInTry(run, pending, user_id, source_lang) ==
    \E delivered \in BOOLEAN :
        IF delivered
        THEN Finally(Log(run, "send_keyboard"),
                     AWAITING_TRANSLATION_LANGUAGE, pending,
                     ShowKeyboard(keyboards, user_id, source_lang))
        ELSE Except(run, pending, keyboards)

\* BotHandlers.process_voice
ProcessVoice ==
    \E user_id \in Writers, started \in BOOLEAN :
        LET entered == Run("process_voice", user_id, MessageData(<<>>, None))
            created == [entered EXCEPT !.created = {TempFile}]
        IN
        IF ~started
        THEN Done(Return(entered, Raised), pending_translations, keyboards)
        ELSE \E downloaded \in BOOLEAN :
        IF ~downloaded
        THEN Except(created, pending_translations, keyboards)
        ELSE \E transcription \in TranscribeOutcomes :
        LET transcribed_text == transcription.text
            whisper_detected_language == transcription.language
            transcribed == Log([created EXCEPT !.data.text = transcribed_text],
                               "transcribe")
        IN
        IF transcribed_text = <<>>
        THEN ReplyInTry(transcribed, "reply_not_recognized", None,
                        pending_translations, keyboards)
        ELSE \E shown \in BOOLEAN :
        IF ~shown
        THEN Except(transcribed, pending_translations, keyboards)
        ELSE \E detection \in BotDetections :
        LET source_lang == detect_language(transcribed_text,
                                           whisper_detected_language,
                                           detection.detect,
                                           detection.classify)
            detected == Log(Log([transcribed EXCEPT
                                    !.data.source_lang = source_lang],
                                "reply_transcription"),
                            "detect_language")
        IN
        IF ~Truthy(source_lang)
        THEN ReplyInTry(detected, "reply_not_detected", END,
                        pending_translations, keyboards)
        ELSE IF source_lang = "en"
        THEN AskTargetLanguageInTry(
                 detected,
                 Store(pending_translations, user_id,
                       VoiceEnglishEntry(transcribed_text, source_lang,
                                         user_id)),
                 user_id, source_lang)
        ELSE \E google \in GoogleOutcomes :
        LET english_translation ==
                translate(transcribed_text, source_lang, "en", google)
            translated == Log([detected EXCEPT !.data.english =
                                                  english_translation],
                              "translate")
            stored == Store(pending_translations, user_id,
                            VoiceTranslatedEntry(
                                english_translation.text, transcribed_text,
                                source_lang, user_id))
        IN
        IF Falsy(english_translation)
        THEN ReplyInTry(translated, "reply_translation_failed", END,
                        pending_translations, keyboards)
        ELSE \E delivered \in BOOLEAN :
            IF delivered
            THEN AskTargetLanguageInTry(Log(translated, "reply_english"),
                                        stored, user_id, source_lang)
            ELSE Except(translated, stored, keyboards)

\* the bot when user 1 starts to write: user 2 sent the text aaa before
\* and has its keyboard on screen; the Mistral key is unset or set
InitBot ==
    /\ IdleCall
    /\ supported_languages = SUPPORTED_LANGUAGES
    /\ USER_LANGUAGE_PREFS = <<>>
    /\ pending_translations = (2 :> EnglishEntry(<<97, 97, 97>>, "en"))
    /\ api_key \in {None, "key"}
    /\ keyboards = (2 :> {"en"})
    /\ last = NoRun
    /\ files = <<>>

NextBot ==
    \/ ProcessText
    \/ ProcessVoice
    \/ TranslationLanguageCallback
    \/ AssistantCallback

SpecBot == InitBot /\ [][NextBot]_vars

---------------------------------------------------------------------------
(* GTTSEngine._post_process_audio, called on the file gTTS has saved       *)

\* the path of the output file, file_path; the temporary files have the
\* paths 1, 2, ...
OutputPath == 0

\* at most this many temporary files are left on disk
MaxTempFiles == 2

\* the languages whose audio is normalized (line 126)
NormalizedLanguages == {"ar", "zh", "ja"}

\* what subprocess.run(cmd, check=True) does: ffmpeg succeeds, ffmpeg exits
\* with an error (CalledProcessError), ffmpeg is not installed
\* (FileNotFoundError)
FfmpegOutcomes == {"ok", "CalledProcessError", "FileNotFoundError"}

\* the path tempfile.NamedTemporaryFile gives: one that does not exist
FreshPath(fs) ==
    1 + (CHOOSE p \in DOMAIN fs : \A q \in DOMAIN fs : q <= p)

\* the temporary files on disk
TempPaths(fs) == DOMAIN fs \ {OutputPath}

\* the disk after gTTS saved the speech to file_path
InitSpeech ==
    /\ IdleCall
    /\ supported_languages = SUPPORTED_LANGUAGES
    /\ USER_LANGUAGE_PREFS = <<>>
    /\ pending_translations = <<>>
    /\ api_key = None
    /\ keyboards = <<>>
    /\ last = NoRun
    /\ files = (OutputPath :> "speech")

\* GTTSEngine._post_process_audio(file_path, language)
PostProcessAudio ==
    \E language \in SUPPORTED_LANGUAGES :
        LET run == Run("_post_process_audio", 0, language)
        IN  /\ IF language \notin NormalizedLanguages
               THEN /\ last' = Return(run, None)
                    /\ UNCHANGED files
               ELSE \E made \in BOOLEAN :
                   IF ~made
                   THEN /\ last' = Return(run, None)
                        /\ UNCHANGED files
                   ELSE LET temp_path == FreshPath(files)
                            created == [run EXCEPT !.created = {temp_path}]
                        IN
                        /\ Cardinality(TempPaths(files)) < MaxTempFiles
                        /\ last' = Return(Log(created, "ffmpeg"), None)
                        /\ \E ffmpeg \in FfmpegOutcomes,
                              replaced \in BOOLEAN :
                            IF ffmpeg = "ok" /\ replaced
                            THEN files' = [files EXCEPT ![OutputPath] =
                                                           "normalized"]
                            ELSE files' =
                                   (temp_path :>
                                      IF ffmpeg = "ok" THEN "normalized"
                                      ELSE IF ffmpeg = "CalledProcessError"
                                      THEN "partial"
                                      ELSE "empty") @@ files
            /\ UNCHANGED <<call, supported_languages, USER_LANGUAGE_PREFS,
                           pending_translations, api_key, keyboards>>

NextSpeech == PostProcessAudio

SpecSpeech == InitSpeech /\ [][NextSpeech]_vars

---------------------------------------------------------------------------
(* Vocabulary of the properties *)

\* the call has returned
Returned == pc = "done"

\* the call reached _combine_detection_results
Combined == final_lang # Unset

\* detect() / classify() raised inside its wrapper
LangdetectRaised == detect_outcome.kind \in {"LangDetectException", "Exception"}
LangidRaised == classify_outcome.kind = "Exception"

\* the number of characters of s that are not spaces
NonSpaceCount(s) == Cardinality({i \in 1..Len(s) : ~IsSpace(s[i])})

\* s has a character of one of the six scripts of the script table
HasScriptChar(s) ==
    \E i \in 1..Len(s) :
        \/ s[i] \in 19968..40959 \/ s[i] \in 12352..12543
        \/ s[i] \in 44032..55215 \/ s[i] \in 4352..4607
        \/ s[i] \in 1536..1791 \/ s[i] \in 1040..1103
        \/ s[i] \in 880..1023

\* both detectors gave a code and the codes differ
Disagree == 
    /\ Combined
    /\ Truthy(langdetect_result) /\ Truthy(langid_result)
    /\ langdetect_result # langid_result

\* x with an unsupported code replaced by None
SupportedOrNone(x) == IF x \in SUPPORTED_LANGUAGES THEN x ELSE None

---------------------------------------------------------------------------
(* Properties of detect_language *)

\* C1: detect_language returns None or a member of SUPPORTED_LANGUAGES,
\* for every text, every hint and every pair of detector outcomes.
C1_ReturnsSupportedOrNone ==
    Returned => (result = None \/ result \in SUPPORTED_LANGUAGES)

\* C2: with a supported hint, detect_language returns the hint for every
\* text, and neither the cleaning nor a detector is invoked in that call.
C2_SupportedHintShortCircuits ==
    (Truthy(hint_language) /\ hint_language \in SUPPORTED_LANGUAGES)
        => /\ calls = <<>>
           /\ pc \in {"start", "done"}
           /\ (Returned => result = hint_language)

\* a supported hint was returned for a text that is only a URL
C2_Witness ==
    /\ Returned
    /\ hint_language = "ru"
    /\ text = <<119, 119, 119, 46, 97>>
    /\ result = "ru"
    /\ calls = <<>>

\* C3: with no hint, when both detectors return the same supported code X,
\* detect_language returns X, whatever scripts the text contains.
C3_AgreementWins ==
    (/\ Returned /\ Combined
     /\ hint_language = None
     /\ langdetect_result = langid_result
     /\ langdetect_result \in SUPPORTED_LANGUAGES)
        => result = langdetect_result

\* both detectors said ru on a text of Arabic letters, and ru was returned
C3_Witness ==
    /\ Returned
    /\ hint_language = None
    /\ HasArabic(cleaned_text)
    /\ langdetect_result = "ru" /\ langid_result = "ru"
    /\ result = "ru"

\* C4 as stated: with no hint, when the normalized text has fewer than 3
\* non-space characters, detect_language returns None and no detector
\* result is used.
C4_FewerThanThreeNonSpace ==
    (/\ Returned
     /\ hint_language = None
     /\ NonSpaceCount(_clean_text_for_detection(text)) < 3)
        => /\ result = None
           /\ detect_outcome = NoOutcome /\ classify_outcome = NoOutcome

\* C4 amended: with no hint, when the normalized text has fewer than 3
\* characters, its inner spaces counted, detect_language returns None and
\* no detector is invoked.
C4_FewerThanThreeCharacters ==
    (/\ hint_language = None
     /\ Len(_clean_text_for_detection(text)) < 3)
        => /\ pc \in {"start", "done"}
           /\ (Returned => result = None)
           /\ detect_outcome = NoOutcome /\ classify_outcome = NoOutcome

\* a text of three ideographs was cleaned to nothing and None was returned
C4_Witness ==
    /\ Returned
    /\ hint_language = None
    /\ text = <<20013, 20013, 20013>>
    /\ calls = <<"_clean_text_for_detection">>
    /\ cleaned_text = <<>>
    /\ result = None

\* C5: with no hint and a normalized text of at least 3 characters, when
\* exactly one detector returns a code and the code is supported,
\* detect_language returns that code, whatever scripts the text contains.
C5_SingleResultWins ==
    (/\ Returned /\ Combined
     /\ hint_language = None)
        => /\ (langid_result = None
                 /\ langdetect_result \in SUPPORTED_LANGUAGES
                    => result = langdetect_result)
           /\ (langdetect_result = None
                 /\ langid_result \in SUPPORTED_LANGUAGES
                    => result = langid_result)

\* only langid gave a code (en) on a text of Cyrillic letters; en returned
C5_Witness ==
    /\ Returned
    /\ hint_language = None
    /\ HasCyrillic(cleaned_text)
    /\ langdetect_result = None /\ langid_result = "en"
    /\ result = "en"

\* C6: with no hint, when the detectors return different codes and the
\* normalized text has no character of the script table, detect_language
\* returns the code of langdetect when that code is supported.
C6_PreferLangdetect ==
    (/\ Returned /\ Disagree
     /\ hint_language = None
     /\ ~HasScriptChar(cleaned_text)
     /\ langdetect_result \in SUPPORTED_LANGUAGES)
        => result = langdetect_result

\* langdetect said en, langid said ru, on Latin text; en was returned
C6_Witness ==
    /\ Returned
    /\ hint_language = None
    /\ cleaned_text = <<97, 97, 97>>
    /\ langdetect_result = "en" /\ langid_result = "ru"
    /\ result = "en"

\* C7: Cyrillic tie-break.  When the detectors return different codes,
\* neither is the hint, and the normalized text has a letter of
\* [a-ya A-YA] and no ideograph, kana, Hangul or Arabic character,
\* _combine_detection_results returns ru if a detector said ru, else the
\* first of uk, bg, sr that a detector said, else ru.
C7_CyrillicTieBreak ==
    (/\ Disagree
     /\ hint_language # langdetect_result /\ hint_language # langid_result
     /\ HasCyrillic(cleaned_text)
     /\ ~HasCJK(cleaned_text) /\ ~HasKana(cleaned_text)
     /\ ~HasHangul(cleaned_text) /\ ~HasArabic(cleaned_text))
        => LET said == {langdetect_result, langid_result}
           IN  final_lang = IF "ru" \in said THEN "ru"
                            ELSE IF "uk" \in said THEN "uk"
                            ELSE IF "bg" \in said THEN "bg"
                            ELSE IF "sr" \in said THEN "sr"
                            ELSE "ru"

\* langdetect said ru, langid said bg, on Cyrillic text; ru was chosen
C7_Witness ==
    /\ Combined
    /\ cleaned_text = <<1087, 1087, 1087>>
    /\ langdetect_result = "ru" /\ langid_result = "bg"
    /\ final_lang = "ru"

\* C8: with no hint, detect_language returns what it would return if each
\* unsupported detector output were replaced by None.
C8_UnsupportedOutputIsNoSignal ==
    (/\ Returned /\ Combined
     /\ hint_language = None)
        => result = Validate(
                        _combine_detection_results(
                            cleaned_text,
                            SupportedOrNone(langdetect_result),
                            SupportedOrNone(langid_result),
                            None),
                        None)

\* C9: final validation.  When the combined decision is None or not
\* supported, detect_language returns None if no hint was passed and the
\* hint if a non-empty hint was passed.
C9_FinalValidation ==
    (/\ Returned /\ Combined
     /\ Len(cleaned_text) >= 3
     /\ (final_lang = None \/ final_lang \notin SUPPORTED_LANGUAGES))
        => /\ (hint_language = None => result = None)
           /\ (Truthy(hint_language) => result = hint_language)

\* an unsupported hint came back after the detectors gave nothing usable
C9_Witness ==
    /\ Returned /\ Combined
    /\ hint_language = "sr"
    /\ final_lang \notin SUPPORTED_LANGUAGES
    /\ langdetect_result = "mk"
    /\ result = "sr"

\* C10: detect_language always returns a value, and a detector that raises
\* counts as that detector returning None: the call goes on to the other
\* detector and to the combination, with None as that detector's result.
C10_DetectorExceptionIsAbsent ==
    /\ (Returned => result \notin {Unset, Raised})
    /\ (LangdetectRaised => langdetect_result = None)
    /\ (LangidRaised => langid_result = None)
    /\ ((Returned /\ (LangdetectRaised \/ LangidRaised))
          => /\ calls = <<"_clean_text_for_detection",
                          "_detect_with_langdetect", "_detect_with_langid",
                          "_combine_detection_results">>
             /\ (LangdetectRaised /\ ~LangidRaised /\ hint_language = None
                   => result = IF classify_outcome.conf > 5
                                THEN classify_outcome.lang ELSE None)
             /\ (LangidRaised /\ ~LangdetectRaised /\ hint_language = None
                   => result = SupportedOrNone(detect_outcome.lang))
             /\ (LangidRaised /\ LangdetectRaised
                   => result = IF Truthy(hint_language)
                                THEN hint_language ELSE None))

\* detect() raised, langid said ru with confidence 0.6, and ru was returned
C10_Witness ==
    /\ Returned
    /\ hint_language = None
    /\ detect_outcome.kind = "Exception"
    /\ classify_outcome = [kind |-> "return", lang |-> "ru", conf |-> 6]
    /\ result = "ru"

\* the cleaning ran in this call
Cleaned == calls # <<>>

\* C11: the cleaning is idempotent: cleaning a cleaned text changes nothing.
C11_CleaningIdempotent ==
    Cleaned => _clean_text_for_detection(cleaned_text) = cleaned_text

\* a URL as the claims mean it starts at index j of s: http://, https://
\* or www. followed by a character that is not a space
UrlStartsAt(s, j) ==
    \/ HasAt(s, j, <<104, 116, 116, 112, 58, 47, 47>>)
         /\ j + 7 <= Len(s) /\ ~IsSpace(s[j + 7])
    \/ HasAt(s, j, <<104, 116, 116, 112, 115, 58, 47, 47>>)
         /\ j + 8 <= Len(s) /\ ~IsSpace(s[j + 8])
    \/ HasAt(s, j, <<119, 119, 119, 46>>)
         /\ j + 4 <= Len(s) /\ ~IsSpace(s[j + 4])

\* the character at index i of s belongs to a URL
InUrl(s, i) ==
    \E j \in 1..i : UrlStartsAt(s, j) /\ \A k \in j..i : ~IsSpace(s[k])

\* a pictograph of the blocks the emoji pattern names (1F300-1FAFF and the
\* dingbats 2702-27B0)
IsPictograph(c) == c \in 127744..129791 \/ c \in 9986..10160

\* s consists of URLs, pictographs and spaces only
UrlEmojiSpaceOnly(s) ==
    \A i \in 1..Len(s) : IsSpace(s[i]) \/ IsPictograph(s[i]) \/ InUrl(s, i)

IdeographsOnly(s) == Len(s) >= 3 /\ \A i \in 1..Len(s) : s[i] \in 19968..40959

\* C13: for a text of 3 or more ideographs and no hint, the call reaches the
\* detectors, and when langdetect says ja and langid gives nothing,
\* detect_language returns ja.
C13_IdeographsSingleResult ==
    (Returned /\ hint_language = None /\ IdeographsOnly(text))
        => /\ detect_outcome # NoOutcome /\ classify_outcome # NoOutcome
           /\ (detect_outcome.lang = "ja" /\ langid_result = None
                 => result = "ja")

\* what the call returns when detect() and classify() do ao and bo
ResultOf(t, hint, ao, bo) ==
    Validate(
        _combine_detection_results(
            _clean_text_for_detection(t), _detect_with_langdetect(ao),
            _detect_with_langid(bo), hint),
        hint)

C15_Pure ==
    [][/\ UNCHANGED outside
       /\ (pc' = "done" /\ previous' # NoPrevious
             => result' = previous'.result)]_vars

\* the second call returned ru as the first did, the preference of user 1
\* and the pending translation being what they were
C15_Witness ==
    /\ Returned /\ Combined
    /\ previous # NoPrevious
    /\ previous.result = "ru" /\ result = "ru"
    /\ supported_languages = SUPPORTED_LANGUAGES
    /\ USER_LANGUAGE_PREFS = (1 :> "ru")
    /\ pending_translations =
          (1 :> [text |-> <<97, 97, 97>>, source_lang |-> "en"])

\* C16: with no hint, when both detectors are absent (returned None or
\* raised), detect_language returns None.
C16_BothAbsentGivesNone ==
    (/\ Returned /\ Combined
     /\ hint_language = None
     /\ langdetect_result = None /\ langid_result = None)
        => final_lang = None /\ result = None

\* detect() raised and langid was not confident enough: None was returned
C16_Witness ==
    /\ Returned /\ Combined
    /\ hint_language = None
    /\ detect_outcome.kind = "LangDetectException"
    /\ classify_outcome = [kind |-> "return", lang |-> "en", conf |-> 4]
    /\ result = None

\* C17: _detect_with_langid returns the classified code if and only if the
\* confidence is strictly greater than 0.5 (5 tenths); at 0.5 or lower, and
\* on an exception, it returns None.
C17_LangidThreshold ==
    classify_outcome # NoOutcome
        => langid_result =
             IF classify_outcome.kind = "return" /\ classify_outcome.conf >= 6
             THEN classify_outcome.lang
             ELSE None

\* langid classified ru with confidence exactly 0.5 and None was kept
C17_Witness ==
    /\ classify_outcome = [kind |-> "return", lang |-> "ru", conf |-> 5]
    /\ langid_result = None

\* neither detector result is the hint
HintUnconfirmed ==
    ~Truthy(hint_language)
        \/ (hint_language # langdetect_result
              /\ hint_language # langid_result)

\* the outcome of the Cyrillic rule for the two codes the detectors said
TieBreakOf(said) ==
    IF "ru" \in said THEN "ru"
    ELSE IF "uk" \in said THEN "uk"
    ELSE IF "bg" \in said THEN "bg"
    ELSE IF "sr" \in said THEN "sr"
    ELSE "ru"

\* C18 as stated: when the detectors disagree and neither matches the hint,
\* the first rule in the order of the script table (ideographs, kana,
\* Hangul, Arabic, Greek, Cyrillic) whose script occurs in the text decides.
C18_ScriptTableOrder ==
    (Disagree /\ HintUnconfirmed /\ HasScriptChar(cleaned_text))
        => final_lang =
             IF HasCJK(cleaned_text) THEN "zh"
             ELSE IF HasKana(cleaned_text) THEN "ja"
             ELSE IF HasHangul(cleaned_text) THEN "ko"
             ELSE IF HasArabic(cleaned_text) THEN "ar"
             ELSE IF HasGreek(cleaned_text) THEN "el"
             ELSE TieBreakOf({langdetect_result, langid_result})

\* C18 amended: the order of the rules is ideographs, kana, Hangul, Arabic,
\* Cyrillic, Greek: a text with Greek and Cyrillic letters is decided by
\* the Cyrillic tie-break.
C18_ScriptCodeOrder ==
    (Disagree /\ HintUnconfirmed /\ HasScriptChar(cleaned_text))
        => final_lang =
             IF HasCJK(cleaned_text) THEN "zh"
             ELSE IF HasKana(cleaned_text) THEN "ja"
             ELSE IF HasHangul(cleaned_text) THEN "ko"
             ELSE IF HasArabic(cleaned_text) THEN "ar"
             ELSE IF HasCyrillic(cleaned_text)
                  THEN TieBreakOf({langdetect_result, langid_result})
             ELSE "el"

\* en against bg on a text with alpha and pe: the Cyrillic rule chose bg
C18_Witness ==
    /\ Combined
    /\ cleaned_text = <<945, 1087, 97>>
    /\ hint_language = None
    /\ langdetect_result = "en" /\ langid_result = "bg"
    /\ final_lang = "bg"

\* C19: when a non-empty hint equals the result of langdetect or of langid,
\* _combine_detection_results returns the hint, whatever the other result
\* and the scripts of the text.
C19_ConfirmedHintWins ==
    (/\ Combined
     /\ Truthy(hint_language)
     /\ (hint_language = langdetect_result
           \/ hint_language = langid_result))
        => final_lang = hint_language

\* the hint ru was confirmed by langid alone on a text of Arabic letters,
\* langdetect saying en: ru was returned
C19_Witness ==
    /\ Combined
    /\ hint_language = "ru"
    /\ cleaned_text = <<1575, 1575, 1575>>
    /\ langdetect_result = "en" /\ langid_result = "ru"
    /\ final_lang = "ru"

\* the characters of s that are neither spaces nor pictographs, in order
LettersOf(s) == SelectSeq(s, LAMBDA c : ~IsSpace(c) /\ ~IsPictograph(c))

\* C20: the cleaning removes only URLs, pictographs and redundant spaces:
\* every other character outside a URL, the letters of the six scripts of
\* the script table among them, is in the cleaned text in its order.
C20_CleaningKeepsLetters ==
    Cleaned => LettersOf(cleaned_text) = LettersOf(RemoveUrls(text))

\* s contains a match of the URL pattern
ContainsUrl(s) == \E j \in 1..Len(s) : UrlStartsAt(s, j)

\* C21: the output of the cleaning contains no substring that matches the
\* URL pattern (http://, https:// or www. followed by non-space characters).
C21_NoUrlAfterCleaning ==
    Cleaned => ~ContainsUrl(cleaned_text)

\* a detector was invoked in this call
DetectorInvoked ==
    \E k \in 1..Len(calls) :
        calls[k] \in {"_detect_with_langdetect", "_detect_with_langid"}

\* the hint is given and is not a supported language
UnsupportedHint ==
    Truthy(hint_language) /\ hint_language \notin SUPPORTED_LANGUAGES

\* the raw text or the normalized text has fewer than 3 characters after
\* trimming
RawOrNormalizedShort ==
    \/ Len(Strip(text)) < 3
    \/ Len(Strip(_clean_text_for_detection(text))) < 3

\* C22: an unsupported hint never bypasses the too-short rejection: when the
\* raw or the normalized text has fewer than 3 characters after trimming,
\* detect_language returns None, not the hint, and invokes no detector.
C22_UnsupportedHintShortText ==
    (UnsupportedHint /\ RawOrNormalizedShort)
        => /\ ~DetectorInvoked
           /\ pc \in {"start", "done"}
           /\ Returned => result = None

\* a call with the hint sr returned None for www.a, which is long enough
\* raw and empty once cleaned
C22_Witness ==
    /\ Returned
    /\ hint_language = "sr"
    /\ text = <<119, 119, 119, 46, 97>>
    /\ cleaned_text = <<>>
    /\ calls = <<"_clean_text_for_detection">>
    /\ result = None

\* the direct call of _combine_detection_results has returned
CombineReturned == pc = "combined"

\* the call ends at the last return of the conflict branch, "prefer
\* langdetect": two different results, no character of the tested scripts,
\* no hint
PreferLangdetectDefault ==
    /\ Truthy(langdetect_result) /\ Truthy(langid_result)
    /\ langdetect_result # langid_result
    /\ ~Truthy(hint_language)
    /\ ~(HasCJK(cleaned_text) \/ HasKana(cleaned_text)
          \/ HasHangul(cleaned_text) \/ HasArabic(cleaned_text)
          \/ HasCyrillic(cleaned_text) \/ HasGreek(cleaned_text))

\* C23: _combine_detection_results is symmetric in its two detector
\* arguments whenever the decision is not the final "prefer langdetect"
\* default: the call with langdetect_result and langid_result swapped
\* returns the same code.
C23_CombineSymmetric ==
    (CombineReturned /\ ~PreferLangdetectDefault)
        => final_lang = _combine_detection_results(
                            cleaned_text, langid_result, langdetect_result,
                            hint_language)

\* a Cyrillic text with langdetect bg and langid uk: the tie-break takes the
\* result of langid, and takes it in the swapped call too
C23_Witness ==
    /\ CombineReturned
    /\ HasCyrillic(cleaned_text)
    /\ langdetect_result = "bg" /\ langid_result = "uk"
    /\ hint_language = None
    /\ final_lang = "uk"

\* the last step called Config.set_user_language(last.user, last.data)
SetUserLanguageCalled ==
    \E k \in 1..Len(last.calls) : last.calls[k] = "set_user_language"

\* C25: after any sequence of set_user_language calls every stored
\* preference is a supported language; a call with an unsupported code
\* leaves USER_LANGUAGE_PREFS unchanged; get_user_language(u) is the last
\* supported code set for u, or TARGET_LANGUAGE when none was set, and a
\* call for one user does not affect the entry of another.
C25_PreferencesSupported ==
    [][/\ \A u \in DOMAIN USER_LANGUAGE_PREFS' :
             USER_LANGUAGE_PREFS'[u] \in SUPPORTED_LANGUAGES
       /\ (SetUserLanguageCalled' /\ last'.data \notin SUPPORTED_LANGUAGES)
             => USER_LANGUAGE_PREFS' = USER_LANGUAGE_PREFS
       /\ \A u \in Users :
             /\ get_user_language(USER_LANGUAGE_PREFS', u) =
                   IF SetUserLanguageCalled' /\ last'.user = u
                      /\ last'.data \in SUPPORTED_LANGUAGES
                   THEN last'.data
                   ELSE get_user_language(USER_LANGUAGE_PREFS, u)
             /\ u \notin DOMAIN USER_LANGUAGE_PREFS'
                   => get_user_language(USER_LANGUAGE_PREFS', u) = "en"
      ]_vars

\* user 1 chose ru and then pressed a button whose code sr is not supported:
\* the preference of user 1 is still ru and user 2 has none
C25_Witness ==
    /\ last.handler = "language_callback"
    /\ last.user = 1 /\ last.data = "sr"
    /\ SetUserLanguageCalled
    /\ USER_LANGUAGE_PREFS = (1 :> "ru")
    /\ get_user_language(USER_LANGUAGE_PREFS, 1) = "ru"
    /\ get_user_language(USER_LANGUAGE_PREFS, 2) = "en"

---------------------------------------------------------------------------
(* Properties of the handlers *)

\* the last run made the call what
Called(what) == \E k \in 1..Len(last.calls) : last.calls[k] = what

\* the last run made the call first before the call second
Before(first, second) ==
    \E j, k \in 1..Len(last.calls) :
        j < k /\ last.calls[j] = first /\ last.calls[k] = second

\* the last run was translation_language_callback and it tried to
\* translate the pending text
TranslationAttempted ==
    /\ last.handler = "translation_language_callback"
    /\ Called("translate") \/ Called("translate_with_context")

\* C24 as the claim states it: the context-aware LLM translation is tried
\* first, the generic translator is called only as the fallback when the
\* LLM translation failed, and the "failed to translate" reply is sent
\* only if both failed.
C24_AssistantFirst ==
    TranslationAttempted
        => /\ Called("translate_with_context")
           /\ Called("translate")
                 => /\ Before("translate_with_context", "translate")
                    /\ Falsy(last.data.assistant)
           /\ Called("reply_translation_failed")
                 => Falsy(last.data.assistant) /\ Falsy(last.data.generic)

\* C24 as amended: the generic translator is tried first, the
\* context-aware LLM translation is called only as the fallback, when the
\* generic translation failed and the assistant service is available, and
\* the "failed to translate" reply is sent only if neither gave a
\* translation.
C24_GenericFirst ==
    TranslationAttempted
        => /\ Called("translate")
           /\ Called("translate_with_context")
                 => /\ Before("translate", "translate_with_context")
                    /\ Falsy(last.data.generic)
                    /\ api_key = "key"
           /\ Called("reply_translation_failed")
                 => /\ Falsy(last.data.generic)
                    /\ Called("translate_with_context")
                          => Falsy(last.data.assistant)

\* GoogleTranslator raised, the Mistral service then gave a translation,
\* which was sent
C24_Witness ==
    /\ TranslationAttempted
    /\ last.data.generic = NoText
    /\ last.data.assistant = TextResult(<<99, 99, 99>>)
    /\ Before("translate", "translate_with_context")
    /\ Before("translate_with_context", "reply_translation")
    /\ last.returned = END

\* the last run was process_text or process_voice
MessageHandled == last.handler \in {"process_text", "process_voice"}

\* the last run was one of the two callbacks of the translation keyboard
CallbackHandled ==
    last.handler \in {"translation_language_callback", "assistant_callback"}

\* in the last run the detection of the language failed, or the
\* translation to English did
DetectionOrTranslationFailed ==
    \/ ~Truthy(last.data.source_lang)
    \/ last.data.source_lang # "en" /\ Falsy(last.data.english)

\* C26: every entry of pending_translations written by process_text or
\* process_voice has source_lang 'en', its text being the original English
\* message or its English translation, and no entry is written when the
\* detection or the translation to English fails.
C26_PendingIsEnglish ==
    [][/\ \A u \in DOMAIN pending_translations' :
             pending_translations'[u].source_lang = "en"
       /\ MessageHandled'
             => /\ DetectionOrTranslationFailed'
                      => pending_translations' = pending_translations
                /\ pending_translations' # pending_translations
                      => pending_translations'[last'.user].text =
                            IF last'.data.source_lang = "en"
                            THEN last'.data.text
                            ELSE last'.data.english.text
      ]_vars

\* process_text stored the English translation bbb of a Russian text
C26_Witness ==
    /\ last.handler = "process_text"
    /\ last.data.source_lang = "ru"
    /\ last.data.english = TextResult(<<98, 98, 98>>)
    /\ last.returned = AWAITING_TRANSLATION_LANGUAGE
    /\ pending_translations[1] =
          [text |-> <<98, 98, 98>>, source_lang |-> "en",
           original_text |-> <<1087, 1087, 1087>>, original_lang |-> "ru"]

\* C27: when translation_language_callback or assistant_callback finds a
\* pending entry of the user and returns END, the entry of that user has
\* been removed; a callback that finds no entry replies "expired", calls
\* neither a translator nor the assistant, and leaves pending_translations
\* unchanged.
C27_EntryRemovedAtEnd ==
    [][CallbackHandled'
         => /\ (last'.data.found /\ last'.returned = END)
                  => last'.user \notin DOMAIN pending_translations'
            /\ (~last'.data.found /\ last'.returned = END)
                  => /\ last'.calls = <<"reply_expired">>
                     /\ pending_translations' = pending_translations
      ]_vars

\* C28: every language button of the keyboard that process_text or
\* process_voice sent leads, when pressed while the entry is pending, to a
\* translation attempt into that language: none is rejected as "the same as
\* the source".
C28_OfferedLanguageTranslates ==
    (/\ last.handler = "translation_language_callback"
     /\ last.data.found
     /\ last.data.target \in SUPPORTED_LANGUAGES \ {last.data.keyboard}
     /\ last.returned = END)
        => /\ ~Called("reply_same_language")
           /\ Called("translate")

\* C29: a temporary file created by a handler has had os.unlink attempted
\* on every exit path of the handler, return or exception: the .ogg of
\* process_voice and the .mp3 of translation_language_callback.
C29_TempFileUnlinked ==
    (last.handler \in {"process_voice", "translation_language_callback"}
        /\ last.returned # Unset)
        => last.unlinked = last.created

\* process_voice created its file, the download failed and so did the
\* error message: the exception left the handler after the unlink
C29_Witness ==
    /\ last.handler = "process_voice"
    /\ last.created = {TempFile}
    /\ last.unlinked = {TempFile}
    /\ last.calls = <<>>
    /\ last.returned = Raised

\* C30: _post_process_audio never raises; when it returns, the temporary
\* file it created no longer exists under its own name (it replaced the
\* output file when ffmpeg succeeded and does not remain when ffmpeg
\* failed); for a language other than ar, zh, ja it creates no file and
\* leaves the output unchanged.
C30_NoTempFileLeft ==
    [][last'.handler = "_post_process_audio"
         => /\ last'.returned = None
            /\ \A path \in last'.created : path \notin DOMAIN files'
            /\ last'.data \notin {"ar", "zh", "ja"}
                  => last'.created = {} /\ files' = files
      ]_vars

=============================================================================
